---- MODULE Spec2Model ----
(***************************************************************************)
(* Workspace store (src/core/data_manager.py) and extraction queue         *)
(* (src/core/image_processor.py) of AIReceitYomitori, with the callers of  *)
(* src/ui/main_window.py and src/ui/dialogs/edit_dialog.py.                *)
(*                                                                         *)
(* Strings that the code takes apart (paths, file names, timestamps,       *)
(* extracted values) are sequences of symbols: "F/a.jpg" is                *)
(* <<"F", "/", "a", ".jpg">>, and the separators "/" and "_" are symbols   *)
(* of their own, so that split, replace and relative_to are computed.      *)
(***************************************************************************)
EXTENDS Integers, Sequences, FiniteSets, TLC

\* ------------------------------------------------------------------ bounds
\* The clock runs from 0 to MaxTime; one tick is one second of strftime.
MaxTime == 3
\* Seconds per day of the model clock (the date part of a timestamp changes
\* every TicksPerDay ticks).
TicksPerDay == 2
\* Longest pending sequence the callers build up.
MaxQueue == 2
\* Largest backup.generations the settings dialog is given here
\* (the program allows up to 10).
MaxGenerations == 4
\* Most files in .backupimage before a rename, in the sessions on a folder
\* with two images.
MaxImageBackups == 4
\* Most entries an edit_history gets.
MaxHistory == 2

\* ------------------------------------------------------- program constants
DefaultGenerations == 3
MinGenerations == 3

\* --------------------------------------------------------------- vocabulary
None == <<"None">>
NoTime == 0 - 1

FDate == "Transaction Date (yyyy/mm/dd only)"
FStore == "Store Name"
FTotal == "Total Amount (currency symbol removed)"
FTax10 == "The amount of consumption tax at the rate of 10%"
FTax8 == "The amount of consumption tax at the rate of 8%"
FBase10 == "The amount subject to 10% tax"
FBase8 == "The amount subject to 8% tax"
FItem == "Representative Item Name"

output_format == <<FDate, FStore, FTotal, FTax10, FTax8, FBase10, FBase8, FItem>>

Range(s) == {s[i] : i \in DOMAIN s}

\* Symbols for which str.isalnum() holds, among the symbols of the model.
AlnumSyms == {"a", "b", "S", "T", "24", "01", "0", "1", "2", "3", "4", "8", "10", "100"}

\* ------------------------------------------------------------------- paths
Folder == <<"F">>
Suffix == ".jpg"
InitialFiles == {<<"a", Suffix>>, <<"b", Suffix>>}

Join(dir, name) == dir \o <<"/">> \o name

IsPrefix(p, q) == Len(p) <= Len(q) /\ SubSeq(q, 1, Len(p)) = p

\* Path.name: what follows the last "/".
PathName(p) ==
    LET idx == {i \in DOMAIN p : p[i] = "/"}
    IN  IF idx = {} THEN p
        ELSE LET last == CHOOSE i \in idx : \A j \in idx : j <= i
             IN  SubSeq(p, last + 1, Len(p))

\* Path.parent: what precedes the last "/".
PathParent(p) ==
    LET idx == {i \in DOMAIN p : p[i] = "/"}
    IN  IF idx = {} THEN <<>>
        ELSE LET last == CHOOSE i \in idx : \A j \in idx : j <= i
             IN  SubSeq(p, 1, last - 1)

\* Path.relative_to(dir): ok is FALSE where the code gets a ValueError.
RelativeTo(p, dir) ==
    IF dir # <<>> /\ IsPrefix(dir \o <<"/">>, p) /\ Len(p) > Len(dir) + 1
    THEN [ok |-> TRUE, rel |-> SubSeq(p, Len(dir) + 2, Len(p))]
    ELSE [ok |-> FALSE, rel |-> <<>>]

\* Path.stem and Path.suffix of a file name whose last symbol is its suffix.
PathStem(name) == SubSeq(name, 1, Len(name) - 1)
PathSuffix(name) == <<name[Len(name)]>>

\* -------------------------------------------------------------- timestamps
\* datetime.now().strftime("%Y-%m-%d_%H%M%S")
Timestamp(t) ==
    <<"D" \o ToString(t \div TicksPerDay), "_", "T" \o ToString(t % TicksPerDay)>>

\* backup_dir / f"workspace_{timestamp}.json"
BackupJsonName(t) == <<"workspace", "_">> \o Timestamp(t) \o <<".json">>

\* backup_dir / f"{timestamp}_{image_path.name}"
BackupImageName(t, name) == Timestamp(t) \o <<"_">> \o name

\* "_".join(backup.name.split("_")[1:]): what follows the first "_".
OriginalName(backupName) ==
    LET idx == {i \in DOMAIN backupName : backupName[i] = "_"}
    IN  IF idx = {} THEN <<>>
        ELSE LET first == CHOOSE i \in idx : \A j \in idx : i <= j
             IN  SubSeq(backupName, first + 1, Len(backupName))

\* ------------------------------------------------------------ the document
\* loaded: _workspace is not None; has_images: it has the key "images".
NoWorkspace ==
    [loaded |-> FALSE, has_images |-> FALSE, last_modified |-> NoTime, images |-> <<>>]

\* workspace.json: parseable tells whether json.load accepts the file, and
\* content is what json.load returns then.
NoDiskDoc == [exists |-> FALSE, mtime |-> NoTime, parseable |-> FALSE, content |-> NoWorkspace]

\* A JSON object without the key "images", as json.load returns it.
NoImagesWorkspace ==
    [loaded |-> TRUE, has_images |-> FALSE, last_modified |-> NoTime, images |-> <<>>]

NewImageInfo(absPath) ==
    [file_info |-> [path |-> absPath],
     processing_status |-> [status |-> "pending", last_processed |-> NoTime,
                            error_type |-> "None", error_details |-> "None"],
     extracted_data |-> [f \in Range(output_format) |-> None],
     validation |-> [is_valid |-> FALSE],
     edit_history |-> <<>>]

\* A store state: the in-memory document and the files the store writes;
\* raised tells that the operation left with an exception.
StoreState(ws, doc, bj, bi) ==
    [workspace |-> ws, diskDoc |-> doc, backupjson |-> bj, backupimage |-> bi,
     raised |-> FALSE]

\* Dictionary assignment d[k] = v.
DictSet(d, k, v) == [x \in (DOMAIN d) \cup {k} |-> IF x = k THEN v ELSE d[x]]

\* Dictionary removal d.pop(k).
DictDel(d, k) == [x \in (DOMAIN d) \ {k} |-> d[x]]

\* ---------------------------------------------------------- backup cleanup
\* .backupimage: group by the name left when the timestamp is cut off, keep
\* the first of each group sorted by st_mtime, newest first (equal mtimes
\* stay in directory order, which is arbitrary).
CleanupImageBackups(bi) ==
    LET group(b) == {c \in bi : OriginalName(c.name) = OriginalName(b.name)}
        newest(b) == \A c \in group(b) : b.mtime >= c.mtime
        \* one newest backup of every group
        RECURSIVE Keep(_)
        Keep(rest) ==
            IF rest = {} THEN {{}}
            ELSE LET b == CHOOSE b \in rest : TRUE
                 IN  {R \cup {kept} : R \in Keep(rest \ group(b)),
                                      kept \in {c \in group(b) : newest(c)}}
    IN  Keep(bi)

\* A variant that sorts oldest first.
CleanupJsonBackups_OldestFirst(bj, max_generations) ==
    LET keep == IF Cardinality(bj) < max_generations
                THEN Cardinality(bj) ELSE max_generations
    IN  {R \in SUBSET bj :
            /\ Cardinality(R) = keep
            /\ \A r \in R : \A d \in bj \ R : r.mtime <= d.mtime}

\* .backupjson: sorted by st_mtime, newest first; backups[max_generations:]
\* are deleted.
CleanupJsonBackups(bj, max_generations) ==
    LET keep == IF Cardinality(bj) < max_generations
                THEN Cardinality(bj) ELSE max_generations
    IN  {R \in SUBSET bj :
            /\ Cardinality(R) = keep
            /\ \A r \in R : \A d \in bj \ R : r.mtime >= d.mtime}

\* _cleanup_directory_backups for both directories, image backups first.
CleanupOldBackups(s, max_generations) ==
    {[s EXCEPT !.backupimage = bi, !.backupjson = bj] :
        bi \in CleanupImageBackups(s.backupimage),
        bj \in CleanupJsonBackups(s.backupjson, max_generations)}

\* _create_backup: copy2 keeps the modification time of workspace.json (and
\* copies its content: parseable tells whether the copy is JSON); a backup
\* taken in the same second has the same name and is overwritten.
CreateBackup(s, t, max_generations) ==
    IF ~s.diskDoc.exists THEN {s}
    ELSE LET copy == [name |-> BackupJsonName(t), mtime |-> s.diskDoc.mtime,
                      parseable |-> s.diskDoc.parseable]
             bj == {b \in s.backupjson : b.name # copy.name} \cup {copy}
         IN  CleanupOldBackups([s EXCEPT !.backupjson = bj], max_generations)

\* A variant that writes the document file first and takes the backup after.
SaveWorkspace_OverwriteFirst(s, folder, t, max_generations) ==
    IF folder = <<>> THEN {s}
    ELSE LET ws == [s.workspace EXCEPT !.last_modified = t]
         IN  CreateBackup([s EXCEPT !.workspace = ws,
                                    !.diskDoc = [exists |-> TRUE, mtime |-> t,
                                                 parseable |-> TRUE, content |-> ws]],
                          t, max_generations)

\* _save_workspace: backup, then last_modified, then the document file.
SaveWorkspace(s, folder, t, max_generations) ==
    IF folder = <<>> THEN {s}
    ELSE {LET ws == [b.workspace EXCEPT !.last_modified = t]
          IN  [b EXCEPT !.workspace = ws,
                        !.diskDoc = [exists |-> TRUE, mtime |-> t, parseable |-> TRUE,
                                      content |-> ws]] :
            b \in CreateBackup(s, t, max_generations)}

\* ------------------------------------------------------------- open_folder
\* _create_new_workspace
CreateNewWorkspace(s, folder, t, max_generations) ==
    SaveWorkspace([s EXCEPT !.workspace =
                       [loaded |-> TRUE, has_images |-> TRUE, last_modified |-> t,
                        images |-> <<>>]],
                  folder, t, max_generations)

\* _load_or_create_workspace: whatever json.load returns becomes the
\* document; only an exception of json.load leads to a new document.
LoadOrCreateWorkspace(s, folder, t, max_generations) ==
    IF s.diskDoc.exists /\ s.diskDoc.parseable
    THEN {[s EXCEPT !.workspace = s.diskDoc.content]}
    ELSE CreateNewWorkspace(s, folder, t, max_generations)

\* A variant that also stamps the record it finds with the time of the open.
GetOrCreateImageInfo_Restamp(s, folder, name, t, max_generations) ==
    LET file == Join(folder, name)
        str_path == RelativeTo(file, folder).rel
    IN  IF ~s.workspace.has_images
        THEN {[s EXCEPT !.raised = TRUE]}
        ELSE IF str_path \in DOMAIN s.workspace.images
        THEN {[s EXCEPT !.workspace.images[str_path].file_info.path = file,
                        !.workspace.images[str_path].processing_status.last_processed = t]}
        ELSE SaveWorkspace(
                 [s EXCEPT !.workspace.images =
                      DictSet(s.workspace.images, str_path, NewImageInfo(file))],
                 folder, t, max_generations)

\* _get_or_create_image_info for the file folder/name
GetOrCreateImageInfo(s, folder, name, t, max_generations) ==
    LET file == Join(folder, name)
        str_path == RelativeTo(file, folder).rel
    IN  IF ~s.workspace.has_images
        THEN {[s EXCEPT !.raised = TRUE]}   \* KeyError: 'images'
        ELSE IF str_path \in DOMAIN s.workspace.images
        THEN {[s EXCEPT !.workspace.images[str_path].file_info.path = file]}
        ELSE SaveWorkspace(
                 [s EXCEPT !.workspace.images =
                      DictSet(s.workspace.images, str_path, NewImageInfo(file))],
                 folder, t, max_generations)

\* _load_images: the files of folder.glob("*") with an image suffix, one
\* after the other in the order the directory gives them (n is the next).
RECURSIVE LoadImages(_, _, _, _, _)
LoadImages(s, folder, names, t, max_generations) ==
    IF names = {} \/ s.raised THEN {s}
    ELSE UNION {UNION {LoadImages(s2, folder, names \ {n}, t, max_generations) :
                          s2 \in GetOrCreateImageInfo(s, folder, n, t, max_generations)} :
                   n \in names}

\* open_folder
OpenFolderResults(s, folder, names, t, max_generations) ==
    UNION {LoadImages(s2, folder, names, t, max_generations) :
              s2 \in LoadOrCreateWorkspace(s, folder, t, max_generations)}

\* --------------------------------------------------- updates of one record
NoError == [class |-> "None", msg |-> "None"]

\* update_image_status(image_path, status, error)
UpdateImageStatus(s, folder, image_path, status, error, t, max_generations) ==
    IF ~s.workspace.loaded \/ image_path \notin DOMAIN s.workspace.images
    THEN {s}
    ELSE SaveWorkspace(
             [s EXCEPT !.workspace.images[image_path].processing_status =
                  [status |-> status, last_processed |-> t,
                   error_type |-> error.class, error_details |-> error.msg]],
             folder, t, max_generations)

\* The key update_extracted_data looks the record up under.
ExtractedDataKey(folder, image_path) ==
    IF folder # <<>> /\ RelativeTo(image_path, folder).ok
    THEN RelativeTo(image_path, folder).rel
    ELSE PathName(image_path)

\* update_extracted_data(image_path, data)
UpdateExtractedData(s, folder, image_path, data, t, max_generations) ==
    LET str_path == ExtractedDataKey(folder, image_path)
    IN  IF ~s.workspace.loaded \/ str_path \notin DOMAIN s.workspace.images
        THEN {s}
        ELSE SaveWorkspace(
                 [s EXCEPT !.workspace.images[str_path].extracted_data = data,
                           !.workspace.images[str_path].processing_status.status = "completed",
                           !.workspace.images[str_path].validation.is_valid = TRUE],
                 folder, t, max_generations)

\* A variant that puts the new entry first.
AddEditHistory_Prepend(s, folder, image_path, field, old_value, new_value, reason, t, max_generations) ==
    IF ~s.workspace.loaded \/ image_path \notin DOMAIN s.workspace.images
    THEN {s}
    ELSE SaveWorkspace(
             [s EXCEPT !.workspace.images[image_path].edit_history =
                  <<[timestamp |-> t, field |-> field, old_value |-> old_value,
                     new_value |-> new_value, edited_by |-> "user",
                     reason |-> reason]>> \o @],
             folder, t, max_generations)

\* add_edit_history(image_path, field, old_value, new_value, reason)
AddEditHistory(s, folder, image_path, field, old_value, new_value, reason, t, max_generations) ==
    IF ~s.workspace.loaded \/ image_path \notin DOMAIN s.workspace.images
    THEN {s}
    ELSE SaveWorkspace(
             [s EXCEPT !.workspace.images[image_path].edit_history =
                  Append(@, [timestamp |-> t, field |-> field, old_value |-> old_value,
                             new_value |-> new_value, edited_by |-> "user",
                             reason |-> reason])],
             folder, t, max_generations)

\* ------------------------------------------------------------------ rename
DictGet(d, k, default) == IF k \in DOMAIN d THEN d[k] ELSE default

\* A variant without the check.
CanRename_Unchecked(extracted_data) == TRUE

\* _can_rename
CanRename(extracted_data) ==
    \A field \in {FDate, FStore} : DictGet(extracted_data, field, None) # None

\* c if c.isalnum() or c in "._- " else "_", for every c of the store name
SanitizeStore(store) ==
    [i \in DOMAIN store |->
        IF store[i] \in AlnumSyms \cup {".", "_", "-", " "} THEN store[i] ELSE "_"]

\* date.replace("/", "-")
FormatDate(date) == [i \in DOMAIN date |-> IF date[i] = "/" THEN "-" ELSE date[i]]

\* _generate_filename: f"{date}_{store}{suffix}"
GenerateFilename(extracted_data, suffix) ==
    FormatDate(DictGet(extracted_data, FDate, <<>>)) \o <<"_">>
        \o SanitizeStore(DictGet(extracted_data, FStore, <<>>)) \o suffix

\* Path.exists() for a path of the model: an image file of the folder.
PathExists(path, fileNames) ==
    PathParent(path) = Folder /\ PathName(path) \in fileNames

\* _resolve_filename_conflict: base_1, base_2, ... until the name is free.
ResolveFilenameConflict(path, fileNames) ==
    IF ~PathExists(path, fileNames) THEN path
    ELSE LET base == PathStem(PathName(path))
             suffix == PathSuffix(PathName(path))
             candidate(counter) ==
                 Join(PathParent(path), base \o <<"_", ToString(counter)>> \o suffix)
             free == {counter \in 1..(Cardinality(fileNames) + 1) :
                         ~PathExists(candidate(counter), fileNames)}
         IN  candidate(CHOOSE counter \in free : \A other \in free : counter <= other)

\* A variant whose caller goes on when the copy has failed.
BackupImage_FailureIgnored(s, image_path, fileMtime, t, raises) ==
    IF raises \/ ~PathExists(image_path, DOMAIN fileMtime)
    THEN [ok |-> TRUE, store |-> s]
    ELSE LET copy == [name |-> BackupImageName(t, PathName(image_path)),
                      mtime |-> fileMtime[PathName(image_path)]]
         IN  [ok |-> TRUE,
              store |-> [s EXCEPT !.backupimage =
                            {b \in @ : b.name # copy.name} \cup {copy}]]

\* _backup_image: copy2 of the image into .backupimage under
\* <timestamp>_<name>, with the image's modification time; ok is FALSE where
\* the code returns None: the image is not there, or mkdir or copy2 raises
\* for a reason of the file system (raises).
BackupImage(s, image_path, fileMtime, t, raises) ==
    IF raises \/ ~PathExists(image_path, DOMAIN fileMtime)
    THEN [ok |-> FALSE, store |-> s]
    ELSE LET copy == [name |-> BackupImageName(t, PathName(image_path)),
                      mtime |-> fileMtime[PathName(image_path)]]
         IN  [ok |-> TRUE,
              store |-> [s EXCEPT !.backupimage =
                            {b \in @ : b.name # copy.name} \cup {copy}]]

\* A variant that leaves the in-memory document alone until the save.
RenameDocUpdate_Late(s, folder, old_path, new_path) == s

\* rename_image, lines 375-383: the record moves to the new relative key of
\* the in-memory document and gets the new path.
RenameDocUpdate(s, folder, old_path, new_path) ==
    LET old_relative_path == RelativeTo(old_path, folder).rel
        new_relative_path == RelativeTo(new_path, folder).rel
        images == s.workspace.images
    IN  IF old_relative_path \in DOMAIN images
        THEN [s EXCEPT !.workspace.images =
                 DictSet(DictDel(images, old_relative_path), new_relative_path,
                         [images[old_relative_path] EXCEPT !.file_info.path = new_path])]
        ELSE s

\* old_path.rename(new_path) on the files of the folder.
RenameFile(fileMtime, old_path, new_path) ==
    DictSet(DictDel(fileMtime, PathName(old_path)), PathName(new_path),
            fileMtime[PathName(old_path)])

\* -------------------------------------------------------------- export_csv
\* No export yet.
NoCsv == [ret |-> "none", rows |-> <<>>]

\* How csv.writer writes a value: None as the empty string.
CsvCell(value) == IF value = None THEN <<>> ELSE value

\* DictWriter.writerow with the default extrasaction='raise' and restval='':
\* ok is FALSE where it raises ValueError for a key that is no field name.
WriteRow(fieldnames, rowdict) ==
    IF DOMAIN rowdict \subseteq Range(fieldnames)
    THEN [ok |-> TRUE,
          row |-> [i \in DOMAIN fieldnames |->
                      IF fieldnames[i] \in DOMAIN rowdict
                      THEN CsvCell(rowdict[fieldnames[i]]) ELSE <<>>]]
    ELSE [ok |-> FALSE, row |-> <<>>]

\* export_csv, lines 318-327: one writerow per record, in the order of the
\* dictionary (any order here), up to the first that raises; the except
\* branch returns False and leaves what was written.
RECURSIVE WriteRows(_, _, _)
WriteRows(images, keys, rows) ==
    IF keys = {} THEN {[ret |-> "true", rows |-> rows]}
    ELSE UNION {LET written == WriteRow(output_format, images[k].extracted_data)
                IN  IF written.ok
                    THEN WriteRows(images, keys \ {k}, Append(rows, written.row))
                    ELSE {[ret |-> "false", rows |-> rows]} :
                   k \in keys}

\* export_csv of a loaded document: the header row, then the data rows.
ExportCsv(ws) == WriteRows(ws.images, DOMAIN ws.images, <<output_format>>)

\* --------------------------------------------------------------- variables
VARIABLES
    \* DataManager
    workspace,          \* _workspace: the in-memory document
    current_folder,     \* _current_folder (<<>> before the first open)
    \* the folder on disk
    files,              \* image file name -> modification time
    diskDoc,            \* workspace.json
    backupjson,         \* the files of .backupjson
    backupimage,        \* the files of .backupimage
    \* environment
    now,                \* the clock, in seconds
    generations,        \* config "backup.generations"
    csv_out,            \* the file of the last CSV export and what export_csv returned
    \* rename_image in progress
    rn,
    \* ImageProcessor
    processing_queue, is_processing, current_progress, total_items, cancelled,
    has_model,          \* hasattr(self, '_model')
    \* ImageProcessThread objects and the processing dialog
    pc, snapshot, position, result, is_cancelled, process_thread, dialog_open,
    \* what each batch has done so far (observation only)
    obs

storeVars == <<workspace, diskDoc, backupjson, backupimage>>
diskVars == <<files, now, generations, csv_out>>
queueVars == <<processing_queue, is_processing, current_progress, total_items, cancelled>>
threadVars == <<pc, snapshot, position, result, is_cancelled, process_thread, dialog_open, obs>>
vars == <<storeVars, current_folder, diskVars, rn, queueVars, has_model, threadVars>>

Threads == {1, 2}

TheStore == StoreState(workspace, diskDoc, backupjson, backupimage)

\* The store state r becomes the next state.
SetStore(r) ==
    /\ workspace' = r.workspace
    /\ diskDoc' = r.diskDoc
    /\ backupjson' = r.backupjson
    /\ backupimage' = r.backupimage

RenameIdle == [pc |-> "idle", old_path |-> <<>>, new_path |-> <<>>, ret |-> "none"]

\* failed: the positions whose extraction failed without ending the batch;
\* cancel_at: how many items had been started when clear_queue was first
\* called during the batch; before, at_cancel: the statuses of the records
\* at the start of the batch and at that call.
NoObs == [failed |-> {}, cancel_at |-> NoTime, before |-> <<>>, at_cancel |-> <<>>]

Statuses(ws) == [k \in DOMAIN ws.images |-> ws.images[k].processing_status.status]

\* DataManager.__init__ and ImageProcessor.__init__ (no API key configured
\* yet), a folder with the image files of fileMtime (name -> modification
\* time) and no workspace.json yet.
InitFiles(fileMtime) ==
    /\ workspace = NoWorkspace
    /\ current_folder = <<>>
    /\ files = fileMtime
    /\ diskDoc = NoDiskDoc
    /\ backupjson = {}
    /\ backupimage = {}
    /\ now = 0
    /\ generations = DefaultGenerations
    /\ csv_out = NoCsv
    /\ rn = RenameIdle
    /\ processing_queue = <<>>
    /\ is_processing = FALSE
    /\ current_progress = 0
    /\ total_items = 0
    /\ cancelled = FALSE
    /\ has_model = FALSE
    /\ pc = [w \in Threads |-> "idle"]
    /\ snapshot = [w \in Threads |-> <<>>]
    /\ position = [w \in Threads |-> 0]
    /\ result = [w \in Threads |-> "none"]
    /\ is_cancelled = [w \in Threads |-> FALSE]
    /\ process_thread = 0
    /\ dialog_open = FALSE
    /\ obs = [w \in Threads |-> NoObs]

\* A folder with the image files names, all last modified in second 0.
InitWith(names) == InitFiles([n \in names |-> 0])

\* A folder with two images.
Init == InitWith(InitialFiles)

\* A folder with one image.
InitStore == InitWith({<<"a", Suffix>>})

\* ------------------------------------------------------- store-side actions
\* One second passes (between two handlers of the user interface).
Tick ==
    /\ now < MaxTime
    /\ rn.pc = "idle"
    /\ now' = now + 1
    /\ UNCHANGED <<storeVars, current_folder, files, generations, csv_out, rn, queueVars,
                   has_model, threadVars>>

\* MainWindow._open_folder -> DataManager.open_folder
OnOpenFolder ==
    /\ ~dialog_open
    /\ rn.pc = "idle"
    /\ current_folder' = Folder
    /\ \E r \in OpenFolderResults(TheStore, Folder, DOMAIN files, now, generations) :
           SetStore(r)
    /\ UNCHANGED <<diskVars, rn, queueVars, has_model, threadVars>>

\* SettingsDialog: backup.generations from the spin box.
OnSettings(g) ==
    /\ ~dialog_open
    /\ rn.pc = "idle"
    /\ generations' = g
    /\ UNCHANGED <<storeVars, current_folder, files, now, csv_out, rn, queueVars,
                   has_model, threadVars>>

\* What the edit dialog can hold: a date and a store name.
EditDates == {<<"24", "/", "01">>}
EditStores == {<<"S", "/", "T">>}

EditKeys == <<FDate, FStore, FTotal, FBase10, FTax10, FBase8, FTax8, "tax rate">>

\* EditDialog.accept, lines 142-151: new_data
EditNewData(date, store) ==
    [key \in Range(EditKeys) |->
        CASE key = FDate -> date
          [] key = FStore -> store
          [] key = FTotal -> <<"100">>
          [] key = "tax rate" -> <<"8">>
          [] OTHER -> <<"0">>]

\* EditDialog.accept, lines 168-177: one add_edit_history per changed field,
\* in the order of new_data, from the states in from.
RECURSIVE EditHistoryCalls(_, _, _, _, _, _, _, _)
EditHistoryCalls(from, folder, image_path, old_data, new_data, i, t, max_generations) ==
    IF i > Len(EditKeys) THEN from
    ELSE LET key == EditKeys[i]
             old_value == DictGet(old_data, key, None)
             next == IF new_data[key] # old_value
                     THEN UNION {AddEditHistory(s, folder, image_path, key, old_value,
                                                new_data[key], "manual", t, max_generations) :
                                    s \in from}
                     ELSE from
         IN  EditHistoryCalls(next, folder, image_path, old_data, new_data, i + 1, t,
                              max_generations)

\* EditDialog.accept for the table row of record k
EditAccept(k, date, store) ==
    /\ ~dialog_open
    /\ rn.pc = "idle"
    /\ workspace.loaded
    /\ k \in DOMAIN workspace.images
    /\ LET image_data == workspace.images[k]
           new_data == EditNewData(date, store)
           updated == UpdateExtractedData(TheStore, current_folder,
                                          image_data.file_info.path, new_data,
                                          now, generations)
       IN  \E r \in EditHistoryCalls(updated, current_folder, image_data.file_info.path,
                                     image_data.extracted_data, new_data, 1, now,
                                     generations) :
               SetStore(r)
    /\ UNCHANGED <<current_folder, diskVars, rn, queueVars, has_model, threadVars>>

\* rename_image up to the update of the in-memory document (lines 343-383)
RenameStart(k) ==
    /\ ~dialog_open
    /\ rn.pc = "idle"
    /\ workspace.loaded
    /\ k \in DOMAIN workspace.images
    /\ \E raises \in BOOLEAN :
       LET image_info == workspace.images[k]
           old_path == image_info.file_info.path
           new_name == GenerateFilename(image_info.extracted_data,
                                        PathSuffix(PathName(old_path)))
           new_path == ResolveFilenameConflict(Join(PathParent(old_path), new_name),
                                               DOMAIN files)
           backup == BackupImage(TheStore, old_path, files, now, raises)
       IN  IF ~CanRename(image_info.extracted_data)
           THEN /\ rn' = [RenameIdle EXCEPT !.ret = "false"]
                /\ UNCHANGED storeVars
           ELSE IF ~backup.ok
           THEN /\ rn' = [RenameIdle EXCEPT !.ret = "false"]
                /\ UNCHANGED storeVars
           ELSE IF ~RelativeTo(old_path, current_folder).ok
           THEN /\ rn' = [RenameIdle EXCEPT !.ret = "false"]
                /\ SetStore(backup.store)
           ELSE /\ rn' = [pc |-> "rename", old_path |-> old_path,
                          new_path |-> new_path, ret |-> "none"]
                /\ SetStore(RenameDocUpdate(backup.store, current_folder,
                                            old_path, new_path))
    /\ UNCHANGED <<current_folder, diskVars, queueVars, has_model, threadVars>>

\* rename_image, lines 385-390: the file is renamed on disk
RenameOnDisk ==
    /\ rn.pc = "rename"
    /\ files' = RenameFile(files, rn.old_path, rn.new_path)
    /\ rn' = [rn EXCEPT !.pc = "save"]
    /\ UNCHANGED <<storeVars, current_folder, now, generations, csv_out, queueVars,
                   has_model, threadVars>>

\* rename_image, lines 387 and 400-403: old_path.rename raises (the file is
\* locked or gone, the name is not allowed); the exception is caught and
\* False is returned.
RenameRaises ==
    /\ rn.pc = "rename"
    /\ rn' = [RenameIdle EXCEPT !.ret = "false"]
    /\ UNCHANGED <<storeVars, current_folder, diskVars, queueVars, has_model, threadVars>>

\* rename_image, lines 392-398: the document is saved, True is returned
RenameSave ==
    /\ rn.pc = "save"
    /\ \E r \in SaveWorkspace(TheStore, current_folder, now, generations) : SetStore(r)
    /\ rn' = [RenameIdle EXCEPT !.ret = "true"]
    /\ UNCHANGED <<current_folder, diskVars, queueVars, has_model, threadVars>>

\* MainWindow._on_export_csv -> DataManager.export_csv
OnExportCsv ==
    /\ ~dialog_open
    /\ rn.pc = "idle"
    /\ workspace.loaded
    /\ csv_out' \in ExportCsv(workspace)
    /\ UNCHANGED <<storeVars, current_folder, files, now, generations, rn, queueVars,
                   has_model, threadVars>>

NextStore ==
    \/ Tick
    \/ OnOpenFolder
    \/ \E g \in MinGenerations..MaxGenerations : OnSettings(g)
    \/ \E k \in DOMAIN workspace.images, date \in EditDates, store \in EditStores :
           EditAccept(k, date, store)
    \/ \E k \in DOMAIN workspace.images :
           /\ Cardinality(backupimage) < MaxImageBackups
           /\ RenameStart(k)
    \/ RenameOnDisk
    \/ RenameSave

SpecStore == InitStore /\ [][NextStore]_vars

\* The same session when the rename on disk can fail.
NextRename ==
    \/ Tick
    \/ OnOpenFolder
    \/ \E k \in DOMAIN workspace.images, date \in EditDates, store \in EditStores :
           EditAccept(k, date, store)
    \/ \E k \in DOMAIN workspace.images :
           /\ Cardinality(backupimage) < MaxImageBackups
           /\ RenameStart(k)
    \/ RenameOnDisk
    \/ RenameRaises
    \/ RenameSave

SpecRename == InitStore /\ [][NextRename]_vars

\* The image files the user may put into the folder later.
AddableFiles == {<<"b", Suffix>>}

\* The user puts an image file into the folder (outside the program).
FileAdded(n) ==
    /\ rn.pc = "idle"
    /\ n \notin DOMAIN files
    /\ files' = DictSet(files, n, now)
    /\ UNCHANGED <<storeVars, current_folder, now, generations, csv_out, rn, queueVars,
                   has_model, threadVars>>

\* The user deletes an image file of the folder (outside the program).
FileRemoved(n) ==
    /\ rn.pc = "idle"
    /\ n \in DOMAIN files
    /\ files' = DictDel(files, n)
    /\ UNCHANGED <<storeVars, current_folder, now, generations, csv_out, rn, queueVars,
                   has_model, threadVars>>

\* A folder whose image files come and go between opens and edits.
NextFolder ==
    \/ Tick
    \/ OnOpenFolder
    \/ \E n \in AddableFiles : FileAdded(n)
    \/ \E n \in DOMAIN files : FileRemoved(n)
    \/ \E k \in DOMAIN workspace.images, date \in EditDates, store \in EditStores :
           EditAccept(k, date, store)

SpecFolder == InitStore /\ [][NextFolder]_vars

\* The contents workspace.json may be given outside the program: a file that
\* is not JSON, and a JSON object without the key "images".
UnusableDocs ==
    {[parseable |-> FALSE, content |-> NoWorkspace],
     [parseable |-> TRUE, content |-> NoImagesWorkspace]}

\* workspace.json is overwritten outside the program.
DocumentReplaced(doc) ==
    /\ rn.pc = "idle"
    /\ diskDoc.exists
    /\ diskDoc' = [exists |-> TRUE, mtime |-> now, parseable |-> doc.parseable,
                   content |-> doc.content]
    /\ UNCHANGED <<workspace, backupjson, backupimage, current_folder, diskVars, rn,
                   queueVars, has_model, threadVars>>

\* A folder whose workspace.json may be damaged between two opens.
NextOpen ==
    \/ Tick
    \/ OnOpenFolder
    \/ \E n \in AddableFiles : FileAdded(n)
    \/ \E n \in DOMAIN files : FileRemoved(n)
    \/ \E doc \in UnusableDocs : DocumentReplaced(doc)

SpecOpen == InitStore /\ [][NextOpen]_vars

\* DataManager.add_edit_history called with image_path, a key of the document
\* or the absolute path of a record, for a change of the store name.
ApiAddEditHistory(image_path, new_value) ==
    /\ ~dialog_open
    /\ rn.pc = "idle"
    /\ workspace.loaded
    /\ \A k \in DOMAIN workspace.images :
           Len(workspace.images[k].edit_history) < MaxHistory
    /\ LET old_value == IF image_path \in DOMAIN workspace.images
                        THEN workspace.images[image_path].extracted_data[FStore]
                        ELSE None
       IN  \E r \in AddEditHistory(TheStore, current_folder, image_path, FStore,
                                   old_value, new_value, "manual", now, generations) :
               SetStore(r)
    /\ UNCHANGED <<current_folder, diskVars, rn, queueVars, has_model, threadVars>>

\* DataManager.update_image_status called with a key of the document or the
\* absolute path of a record, and with an exception when the status is
\* "error".
ApiUpdateImageStatus(image_path, status) ==
    /\ ~dialog_open
    /\ rn.pc = "idle"
    /\ workspace.loaded
    /\ LET error == IF status = "error"
                    THEN [class |-> "RuntimeError", msg |-> <<"failed">>]
                    ELSE NoError
       IN  \E r \in UpdateImageStatus(TheStore, current_folder, image_path, status,
                                      error, now, generations) :
               SetStore(r)
    /\ UNCHANGED <<current_folder, diskVars, rn, queueVars, has_model, threadVars>>

\* Another folder, opened earlier, with image files of the same names.
OtherFolder == <<"G">>

\* The paths of its image files (still in the queue or in a table row).
OutsidePaths == {Join(OtherFolder, n) : n \in InitialFiles}

\* DataManager.update_extracted_data called with image_path and the result
\* of an extraction.
ApiUpdateExtractedData(image_path, data) ==
    /\ ~dialog_open
    /\ rn.pc = "idle"
    /\ workspace.loaded
    /\ \E r \in UpdateExtractedData(TheStore, current_folder, image_path, data, now,
                                    generations) :
           SetStore(r)
    /\ UNCHANGED <<current_folder, diskVars, rn, queueVars, has_model, threadVars>>

\* The paths a caller can name a record by.
ApiPaths ==
    DOMAIN workspace.images \cup
    {workspace.images[k].file_info.path : k \in DOMAIN workspace.images}

\* The operations of DataManager on one folder, called in any order; the
\* record is renamed once.
NextApi ==
    \/ Tick
    \/ OnOpenFolder
    \/ \E image_path \in ApiPaths, new_value \in EditStores :
           ApiAddEditHistory(image_path, new_value)
    \/ \E image_path \in ApiPaths : ApiUpdateImageStatus(image_path, "processing")
    \/ \E k \in DOMAIN workspace.images, date \in EditDates, store \in EditStores :
           EditAccept(k, date, store)
    \/ \E k \in DOMAIN workspace.images :
           /\ backupimage = {}
           /\ RenameStart(k)
    \/ RenameOnDisk
    \/ RenameSave

SpecApi == InitStore /\ [][NextApi]_vars

\* A folder whose image files come and go between opens, while entries are
\* added to the histories of its records.
NextReopen ==
    \/ Tick
    \/ OnOpenFolder
    \/ \E n \in AddableFiles : FileAdded(n)
    \/ \E n \in DOMAIN files : FileRemoved(n)
    \/ \E image_path \in ApiPaths, new_value \in EditStores :
           ApiAddEditHistory(image_path, new_value)

SpecReopen == InitStore /\ [][NextReopen]_vars

\* A folder with two images, which the user may delete between opens, edits
\* and renames, all within one second.
NextStale ==
    \/ OnOpenFolder
    \/ \E n \in DOMAIN files : FileRemoved(n)
    \/ \E k \in DOMAIN workspace.images, date \in EditDates, store \in EditStores :
           /\ workspace.images[k].extracted_data[FStore] = None
           /\ EditAccept(k, date, store)
    \/ \E k \in DOMAIN workspace.images :
           /\ Cardinality(backupimage) < MaxImageBackups
           /\ RenameStart(k)
    \/ RenameOnDisk
    \/ RenameSave

SpecStale == Init /\ [][NextStale]_vars

\* A folder with two images, a.jpg modified after b.jpg.
InitTwo == InitFiles(<<"a", Suffix>> :> 1 @@ <<"b", Suffix>> :> 0)

\* A session on that folder: it is opened once, each record is edited once,
\* and records are renamed as long as .backupimage has fewer than
\* MaxImageBackups files.
NextStoreTwo ==
    \/ Tick
    \/ (~workspace.loaded /\ OnOpenFolder)
    \/ \E k \in DOMAIN workspace.images, date \in EditDates, store \in EditStores :
           /\ workspace.images[k].extracted_data[FStore] = None
           /\ EditAccept(k, date, store)
    \/ \E k \in DOMAIN workspace.images :
           /\ Cardinality(backupimage) < MaxImageBackups
           /\ RenameStart(k)
    \/ RenameOnDisk
    \/ RenameSave

SpecStoreTwo == InitTwo /\ [][NextStoreTwo]_vars

\* ------------------------------------------------------ extraction service
\* What the service answers (response.text parsed by json.loads).
Responses ==
    {[key \in {FDate, FStore, FTotal} |->
         CASE key = FDate -> <<"24", "/", "01">>
           [] key = FStore -> <<"S", "/", "T">>
           [] OTHER -> <<"100">>],
     [key \in {FDate, FStore, FTotal, "10% Tax Amount", FItem} |->
         CASE key = FDate -> <<"24", "/", "01">>
           [] key = FStore -> <<"S", "/", "T">>
           [] key = FItem -> <<"T">>
           [] key = "10% Tax Amount" -> <<"10">>
           [] OTHER -> <<"100">>]}

\* _process_with_gemini, lines 302-314: field_mapping.get(key, key)
FieldMapping(key) ==
    CASE key = "10% Tax Amount" -> FTax10
      [] key = "8% Tax Amount" -> FTax8
      [] key = "10% tax base" -> FBase10
      [] key = "8% tax base" -> FBase8
      [] OTHER -> key

\* _process_with_gemini, lines 316-328
required_fields == <<FDate, FStore, FTotal, FTax10, FTax8, FBase10, FBase8>>

\* _process_with_gemini on a response: renamed keys, then None for every
\* required field that is missing.
ConvertResult(response) ==
    LET keys == {FieldMapping(key) : key \in DOMAIN response}
        source(new_key) == CHOOSE key \in DOMAIN response : FieldMapping(key) = new_key
    IN  [new_key \in keys \cup Range(required_fields) |->
            IF new_key \in keys THEN response[source(new_key)] ELSE None]

\* How a call of process_image can fail: the text the service's exception
\* carries, or a failure of _preprocess_image.
Failures == {"API_KEY_INVALID", "API key not found", "quota exceeded", "other",
             "preprocess"}

\* _process_with_gemini, lines 337-356: RuntimeError(f"{error_type}:{message}")
GeminiError(failure) ==
    CASE failure = "API_KEY_INVALID" -> <<"INVALID_API_KEY", ":", "message">>
      [] failure = "API key not found" -> <<"MISSING_API_KEY", ":", "message">>
      [] failure = "quota exceeded" -> <<"QUOTA_EXCEEDED", ":", "message">>
      [] OTHER -> <<"API_ERROR", ":", failure>>

\* str(e).startswith(("INVALID_API_KEY:", "MISSING_API_KEY:", "QUOTA_EXCEEDED:"))
IsFatal(message) ==
    /\ Len(message) >= 2
    /\ message[1] \in {"INVALID_API_KEY", "MISSING_API_KEY", "QUOTA_EXCEEDED"}
    /\ message[2] = ":"

\* process_image, lines 215-225: the message of the RuntimeError it raises
ProcessImageError(failure) ==
    LET message == IF failure = "preprocess" THEN <<"preprocess">>
                   ELSE GeminiError(failure)
    IN  IF IsFatal(message) THEN message
        ELSE <<"PROCESSING_ERROR", ":">> \o message

\* ----------------------------------------------------------- ImageProcessor
\* list.remove(x): the first occurrence goes.
ListRemove(list, x) ==
    LET first == CHOOSE i \in DOMAIN list :
                     list[i] = x /\ \A j \in DOMAIN list : list[j] = x => i <= j
    IN  SubSeq(list, 1, first - 1) \o SubSeq(list, first + 1, Len(list))

Running(w) == pc[w] \in {"loop", "call", "finally"}

\* The items of the copy that thread w has started so far.
Started(w) ==
    IF ~Running(w) THEN <<>>
    ELSE IF pc[w] = "call" \/ result[w] = "raised"
    THEN SubSeq(snapshot[w], 1, position[w])
    ELSE SubSeq(snapshot[w], 1, position[w] - 1)

\* What clear_queue means for the batches under way (observation only).
ObserveCancel ==
    [w \in Threads |->
        IF pc[w] \in {"loop", "call"} /\ obs[w].cancel_at = NoTime
        THEN [obs[w] EXCEPT !.cancel_at = Len(Started(w)),
                            !.at_cancel = Statuses(workspace)]
        ELSE obs[w]]

\* add_to_queue
AddToQueue(image_paths) ==
    /\ processing_queue' = processing_queue \o image_paths
    /\ cancelled' = FALSE

\* clear_queue
ClearQueue ==
    /\ processing_queue' = <<>>
    /\ cancelled' = TRUE

\* The paths of the checked rows of the table, in some order.
Selections ==
    LET paths == {workspace.images[k].file_info.path : k \in DOMAIN workspace.images}
    IN  {<<p>> : p \in paths}
            \cup {pair \in paths \X paths : pair[1] # pair[2]}

\* MainWindow._on_process_selected: cancel when a batch is running, else
\* enqueue the selection and start thread w behind the modal dialog.
OnProcessSelected(w, image_paths) ==
    /\ ~dialog_open
    /\ rn.pc = "idle"
    /\ workspace.loaded
    /\ image_paths \in Selections
    /\ IF is_processing
       THEN /\ ClearQueue
            /\ obs' = ObserveCancel
            /\ UNCHANGED <<pc, is_cancelled, process_thread, dialog_open>>
       ELSE /\ pc[w] = "idle"
            /\ Len(processing_queue) + Len(image_paths) <= MaxQueue
            /\ AddToQueue(image_paths)
            /\ pc' = [pc EXCEPT ![w] = "started"]
            /\ is_cancelled' = [is_cancelled EXCEPT ![w] = FALSE]
            /\ process_thread' = w
            /\ dialog_open' = TRUE
            /\ UNCHANGED obs
    /\ UNCHANGED <<storeVars, current_folder, diskVars, rn, is_processing,
                   current_progress, total_items, has_model, snapshot, position, result>>

\* MainWindow._on_process_cancelled -> ImageProcessThread.cancel; the dialog
\* closes.
OnProcessCancelled ==
    /\ dialog_open
    /\ process_thread \in Threads
    /\ pc[process_thread] # "idle"
    /\ is_cancelled' = [is_cancelled EXCEPT ![process_thread] = TRUE]
    /\ ClearQueue
    /\ obs' = ObserveCancel
    /\ dialog_open' = FALSE
    /\ UNCHANGED <<storeVars, current_folder, diskVars, rn, is_processing,
                   current_progress, total_items, has_model, pc, snapshot, position,
                   result, process_thread>>

\* MainWindow._on_api_settings -> _setup_gemini with a key: _model is set.
OnApiSettings ==
    /\ ~dialog_open
    /\ has_model' = TRUE
    /\ UNCHANGED <<storeVars, current_folder, diskVars, rn, queueVars, threadVars>>

\* ------------------------------------------- ImageProcessThread.run, by step
\* A variant of the checks that leaves out the one for a running batch.
CannotStart_NoRunningCheck == processing_queue = <<>> \/ ~has_model

\* process_queue, lines 42-52: the three checks that return False
CannotStart == is_processing \/ processing_queue = <<>> \/ ~has_model

\* process_queue up to the first return: False, or on to line 55
ProcessQueueEnter(w) ==
    /\ pc[w] = "started"
    /\ IF CannotStart
       THEN /\ pc' = [pc EXCEPT ![w] = "returned"]
            /\ result' = [result EXCEPT ![w] = "false"]
       ELSE /\ pc' = [pc EXCEPT ![w] = "init"]
            /\ UNCHANGED result
    /\ UNCHANGED <<storeVars, current_folder, diskVars, rn, queueVars, has_model,
                   snapshot, position, is_cancelled, process_thread, dialog_open, obs>>

\* process_queue, lines 55-61: running, counters, the copy of the queue
ProcessQueueBegin(w) ==
    /\ pc[w] = "init"
    /\ is_processing' = TRUE
    /\ total_items' = Len(processing_queue)
    /\ current_progress' = 0
    /\ snapshot' = [snapshot EXCEPT ![w] = processing_queue]
    /\ position' = [position EXCEPT ![w] = 1]
    /\ pc' = [pc EXCEPT ![w] = "loop"]
    /\ obs' = [obs EXCEPT ![w] = [NoObs EXCEPT !.before = Statuses(workspace)]]
    /\ UNCHANGED <<storeVars, current_folder, diskVars, rn, processing_queue, cancelled,
                   has_model, result, is_cancelled, process_thread, dialog_open>>

\* process_queue, lines 61-65: the loop ends when the copy is exhausted or
\* the cancellation flag is set.
LoopExits(w) == position[w] > Len(snapshot[w]) \/ cancelled

\* process_queue, lines 61-70 and 93-97: the loop head; the next item is
\* marked "processing", or the loop ends and True is about to be returned.
StartItem(w) ==
    /\ pc[w] = "loop"
    /\ IF LoopExits(w)
       THEN /\ pc' = [pc EXCEPT ![w] = "finally"]
            /\ result' = [result EXCEPT ![w] = "true"]
            /\ UNCHANGED <<storeVars, obs>>
       ELSE /\ pc' = [pc EXCEPT ![w] = "call"]
            /\ \E r \in UpdateImageStatus(TheStore, current_folder,
                                          snapshot[w][position[w]], "processing",
                                          NoError, now, generations) :
                   SetStore(r)
            /\ UNCHANGED <<result, obs>>
    /\ UNCHANGED <<current_folder, diskVars, rn, queueVars, has_model, snapshot, position,
                   is_cancelled, process_thread, dialog_open>>

\* process_queue, lines 73-83: process_image returns the converted response;
\* the result is stored, the path leaves the queue, progress goes up.  When
\* the path is no longer in the queue, remove raises ValueError and lines
\* 85-91 handle it.
ItemSucceeds(w, response) ==
    /\ pc[w] = "call"
    /\ LET image_path == snapshot[w][position[w]]
           stored == UpdateExtractedData(TheStore, current_folder, image_path,
                                         ConvertResult(response), now, generations)
       IN  IF image_path \in Range(processing_queue)
           THEN /\ \E r \in stored : SetStore(r)
                /\ processing_queue' = ListRemove(processing_queue, image_path)
                /\ current_progress' = current_progress + 1
           ELSE /\ \E r \in UNION {UpdateImageStatus(s, current_folder, image_path, "error",
                                       [class |-> "ValueError", msg |-> <<"list.remove">>],
                                       now, generations) : s \in stored} :
                       SetStore(r)
                /\ UNCHANGED <<processing_queue, current_progress>>
    /\ position' = [position EXCEPT ![w] = @ + 1]
    /\ pc' = [pc EXCEPT ![w] = "loop"]
    /\ UNCHANGED <<current_folder, diskVars, rn, is_processing, total_items, cancelled,
                   has_model, snapshot, result, is_cancelled, process_thread,
                   dialog_open, obs>>

\* A variant that tries the item again after an error that is not fatal.
ItemFails_Retries(w, failure) ==
    /\ pc[w] = "call"
    /\ LET image_path == snapshot[w][position[w]]
           message == ProcessImageError(failure)
       IN  /\ \E r \in UpdateImageStatus(TheStore, current_folder, image_path, "error",
                                         [class |-> "RuntimeError", msg |-> message],
                                         now, generations) :
                  SetStore(r)
           /\ IF IsFatal(message)
              THEN /\ pc' = [pc EXCEPT ![w] = "finally"]
                   /\ result' = [result EXCEPT ![w] = "raised"]
                   /\ UNCHANGED <<position, obs>>
              ELSE /\ pc' = [pc EXCEPT ![w] = "loop"]
                   /\ obs' = [obs EXCEPT ![w].failed = @ \cup {position[w]}]
                   /\ UNCHANGED <<position, result>>
    /\ UNCHANGED <<current_folder, diskVars, rn, queueVars, has_model, snapshot,
                   is_cancelled, process_thread, dialog_open>>

\* process_queue, lines 85-91: process_image raises; the record is marked
\* "error"; a fatal error is raised again, any other goes on with the next.
ItemFails(w, failure) ==
    /\ pc[w] = "call"
    /\ LET image_path == snapshot[w][position[w]]
           message == ProcessImageError(failure)
       IN  /\ \E r \in UpdateImageStatus(TheStore, current_folder, image_path, "error",
                                         [class |-> "RuntimeError", msg |-> message],
                                         now, generations) :
                  SetStore(r)
           /\ IF IsFatal(message)
              THEN /\ pc' = [pc EXCEPT ![w] = "finally"]
                   /\ result' = [result EXCEPT ![w] = "raised"]
                   /\ UNCHANGED <<position, obs>>
              ELSE /\ pc' = [pc EXCEPT ![w] = "loop"]
                   /\ position' = [position EXCEPT ![w] = @ + 1]
                   /\ obs' = [obs EXCEPT ![w].failed = @ \cup {position[w]}]
                   /\ UNCHANGED result
    /\ UNCHANGED <<current_folder, diskVars, rn, queueVars, has_model, snapshot,
                   is_cancelled, process_thread, dialog_open>>

\* A variant of the finally block that keeps the pending paths and the
\* counters.
Finally_KeepsQueue(w) ==
    /\ pc[w] = "finally"
    /\ is_processing' = FALSE
    /\ cancelled' = FALSE
    /\ pc' = [pc EXCEPT ![w] = "returned"]
    /\ UNCHANGED <<storeVars, current_folder, diskVars, rn, has_model, snapshot, position,
                   result, is_cancelled, process_thread, dialog_open, obs,
                   processing_queue, current_progress, total_items>>

\* process_queue, lines 99-104: the finally block
Finally(w) ==
    /\ pc[w] = "finally"
    /\ is_processing' = FALSE
    /\ processing_queue' = <<>>
    /\ current_progress' = 0
    /\ total_items' = 0
    /\ cancelled' = FALSE
    /\ pc' = [pc EXCEPT ![w] = "returned"]
    /\ UNCHANGED <<storeVars, current_folder, diskVars, rn, has_model, snapshot, position,
                   result, is_cancelled, process_thread, dialog_open, obs>>

\* ImageProcessThread.run after process_queue, lines 40-85: the polling loop
\* (as long as a batch runs and the thread is not cancelled), clear_queue of
\* a cancelled thread, and finished, which closes the dialog.
ThreadFinish(w) ==
    /\ pc[w] = "returned"
    /\ result[w] = "true" => ~(is_processing /\ ~is_cancelled[w])
    /\ IF result[w] = "true" /\ is_cancelled[w]
       THEN /\ ClearQueue
            /\ obs' = [ObserveCancel EXCEPT ![w] = NoObs]
       ELSE /\ UNCHANGED <<processing_queue, cancelled>>
            /\ obs' = [obs EXCEPT ![w] = NoObs]
    /\ pc' = [pc EXCEPT ![w] = "idle"]
    /\ snapshot' = [snapshot EXCEPT ![w] = <<>>]
    /\ position' = [position EXCEPT ![w] = 0]
    /\ result' = [result EXCEPT ![w] = "none"]
    /\ dialog_open' = FALSE
    /\ UNCHANGED <<storeVars, current_folder, diskVars, rn, is_processing,
                   current_progress, total_items, has_model, is_cancelled, process_thread>>

\* The steps of thread w and the handlers that start it.
ThreadNext(w) ==
    \/ \E image_paths \in Selections : OnProcessSelected(w, image_paths)
    \/ ProcessQueueEnter(w)
    \/ ProcessQueueBegin(w)
    \/ StartItem(w)
    \/ \E response \in Responses : ItemSucceeds(w, response)
    \/ \E failure \in Failures : ItemFails(w, failure)
    \/ Finally(w)
    \/ ThreadFinish(w)

\* One processing thread at a time: the thread of a batch has finished
\* before the next is started.
Next ==
    \/ OnOpenFolder
    \/ OnApiSettings
    \/ OnProcessCancelled
    \/ ThreadNext(1)

Spec == Init /\ [][Next]_vars

\* update_extracted_data called for the records of the folder and for the
\* files of the other folder.
NextOutside ==
    \/ Tick
    \/ OnOpenFolder
    \/ \E image_path \in ApiPaths \cup OutsidePaths, response \in Responses :
           ApiUpdateExtractedData(image_path, ConvertResult(response))
    \/ \E image_path \in ApiPaths, status \in {"processing", "error"} :
           ApiUpdateImageStatus(image_path, status)

SpecOutside == InitStore /\ [][NextOutside]_vars

\* The steps of process_queue in thread w; every call of process_image
\* returns, with a result or with an exception.
ProcessQueueStep(w) ==
    \/ ProcessQueueEnter(w)
    \/ ProcessQueueBegin(w)
    \/ StartItem(w)
    \/ \E response \in Responses : ItemSucceeds(w, response)
    \/ \E failure \in Failures : ItemFails(w, failure)
    \/ Finally(w)

\* The processing thread is scheduled as long as it has a step to take.
SpecLive == Spec /\ WF_vars(ProcessQueueStep(1))

\* ImageProcessor.add_to_queue called by itself, at any time.
ApiAddToQueue(image_paths) ==
    /\ workspace.loaded
    /\ image_paths \in Selections
    /\ Len(processing_queue) + Len(image_paths) <= MaxQueue
    /\ AddToQueue(image_paths)
    /\ UNCHANGED <<storeVars, current_folder, diskVars, rn, is_processing,
                   current_progress, total_items, has_model, threadVars>>

\* One processing thread, and paths enqueued at any time.
NextEnqueue ==
    \/ Next
    \/ \E image_paths \in Selections : ApiAddToQueue(image_paths)

SpecEnqueue == Init /\ [][NextEnqueue]_vars

\* The batch together with the edit dialog and the CSV export.
NextExport ==
    \/ Next
    \/ \E k \in DOMAIN workspace.images, date \in EditDates, store \in EditStores :
           EditAccept(k, date, store)
    \/ OnExportCsv

SpecExport == Init /\ [][NextExport]_vars

\* Two processing threads may be alive at once: the dialog of the first was
\* cancelled and the user starts again before the first has finished.  The
\* folder has one image.
NextRace ==
    \/ OnOpenFolder
    \/ OnApiSettings
    \/ OnProcessCancelled
    \/ \E w \in Threads : ThreadNext(w)

SpecRace == InitStore /\ [][NextRace]_vars

\* ================================================================== claims
\* The status of the record that tracks the file at image_path.
StatusOf(image_path) ==
    workspace.images[PathName(image_path)].processing_status.status

\* Position i holds the last occurrence of its path in the copy of thread w.
LastOccurrence(w, i) ==
    \A j \in DOMAIN snapshot[w] : snapshot[w][j] = snapshot[w][i] => j <= i

\* Thread w has left the loop without a fatal error and nobody has cancelled.
EndedUncancelled(w) ==
    pc[w] = "finally" /\ result[w] = "true" /\ obs[w].cancel_at = NoTime

\* C1 (as claimed): when a batch of absolute paths ends without cancel or
\* fatal error, every item has been attempted, every record of the batch is
\* "completed" or "error", and an item whose extraction failed is "error".
C1_AllCompletedOrError ==
    \A w \in Threads :
        EndedUncancelled(w) =>
            /\ position[w] = Len(snapshot[w]) + 1
            /\ \A i \in DOMAIN snapshot[w] :
                   /\ StatusOf(snapshot[w][i]) \in {"completed", "error"}
                   /\ (i \in obs[w].failed /\ LastOccurrence(w, i))
                          => StatusOf(snapshot[w][i]) = "error"

\* C2 (as claimed): without cancel or fatal error, at every loop boundary
\* current_progress is the number of items attempted so far, so it is N when
\* the loop is left, and total_items is the length of the copy.
C2_ProgressCountsAttempts ==
    \A w \in Threads :
        (pc[w] \in {"loop", "finally"} /\ result[w] # "raised"
            /\ obs[w].cancel_at = NoTime) =>
            /\ current_progress = Len(Started(w))
            /\ total_items = Len(snapshot[w])

\* C3 (as claimed): when item k fails with a fatal error, record k is
\* "error", no later item has been started, the records of the later items
\* have the status they had before the batch, and the error is raised.
C3_FatalMarksErrorAndStops ==
    \A w \in Threads :
        (pc[w] = "finally" /\ result[w] = "raised") =>
            /\ StatusOf(snapshot[w][position[w]]) = "error"
            /\ Len(Started(w)) = position[w]
            /\ \A i \in (position[w] + 1)..Len(snapshot[w]) :
                   snapshot[w][i] \notin Range(Started(w)) =>
                       StatusOf(snapshot[w][i]) = obs[w].before[PathName(snapshot[w][i])]

\* C4 (as claimed): at most one thread is past the running check and
\* iterating a copy of the pending sequence.
C4_AtMostOneBatch ==
    Cardinality({w \in Threads : pc[w] \in {"loop", "call", "finally"}}) <= 1

\* C5 (as claimed): once clear_queue has been called during a batch, the
\* batch starts no further item, and the records of the paths that had not
\* been started then keep the status they had.
C5_NoStartAfterCancel ==
    \A w \in Threads :
        (Running(w) /\ obs[w].cancel_at # NoTime) =>
            /\ Len(Started(w)) = obs[w].cancel_at
            /\ \A i \in (obs[w].cancel_at + 1)..Len(snapshot[w]) :
                   snapshot[w][i] \notin Range(Started(w)) =>
                       StatusOf(snapshot[w][i]) = obs[w].at_cancel[PathName(snapshot[w][i])]

\* C6: every step that leaves a batch (the finally block, after completion,
\* cancellation or a fatal error) leaves the queue idle, the pending sequence
\* empty and the progress (0, 0).
C6_ExitResets ==
    [][\A w \in Threads :
           (pc[w] = "finally" /\ pc'[w] # "finally") =>
               /\ ~is_processing'
               /\ processing_queue' = <<>>
               /\ current_progress' = 0
               /\ total_items' = 0]_vars

\* A batch aborted by a fatal error on its first item has been left; the
\* second path had not been processed and is no longer pending.
C6_Witness ==
    \E w \in Threads :
        /\ pc[w] = "returned"
        /\ result[w] = "raised"
        /\ position[w] = 1
        /\ Len(snapshot[w]) = 2
        /\ processing_queue = <<>>
        /\ ~is_processing

\* C7: a call of process_queue made while a batch is running, with an empty
\* pending sequence or without an initialized client returns False and
\* changes neither the records, nor the files, nor the pending sequence, the
\* counters, the running flag or the cancellation flag.
C7_FailsFast ==
    [][\A w \in Threads :
           (pc[w] = "started" /\ pc'[w] # "started"
               /\ (is_processing \/ processing_queue = <<>> \/ ~has_model)) =>
               /\ pc'[w] = "returned"
               /\ result'[w] = "false"
               /\ UNCHANGED <<storeVars, queueVars>>]_vars

\* A call has returned False because the other thread's batch is running
\* (the pending sequence is not empty and the client is initialized).
C7_Witness ==
    \E w \in Threads, v \in Threads :
        /\ w # v
        /\ pc[w] = "returned"
        /\ result[w] = "false"
        /\ pc[v] = "call"
        /\ is_processing
        /\ processing_queue # <<>>
        /\ has_model

\* The relative keys of the rename in progress.
OldKey == RelativeTo(rn.old_path, current_folder).rel
NewKey == RelativeTo(rn.new_path, current_folder).rel

\* C8 (as claimed): once the image file has its new name on disk, the
\* persisted document has the record under the new key.
C8_PersistedBeforeRename ==
    (rn.pc # "idle" /\ PathName(rn.new_path) \in DOMAIN files) =>
        NewKey \in DOMAIN diskDoc.content.images

\* C8 (amended): rename moves the record to the new key in the in-memory
\* document first, renames the file on disk next and persists the document
\* last; until then workspace.json has the record under the old key.
C8_RenameBeforePersist ==
    /\ rn.pc = "rename" =>
           /\ PathName(rn.old_path) \in DOMAIN files
           /\ PathName(rn.new_path) \notin DOMAIN files
           /\ NewKey \in DOMAIN workspace.images
           /\ OldKey \notin DOMAIN workspace.images
           /\ OldKey \in DOMAIN diskDoc.content.images
           /\ NewKey \notin DOMAIN diskDoc.content.images
    /\ rn.pc = "save" =>
           /\ PathName(rn.old_path) \notin DOMAIN files
           /\ PathName(rn.new_path) \in DOMAIN files
           /\ NewKey \in DOMAIN workspace.images
           /\ OldKey \in DOMAIN diskDoc.content.images
           /\ NewKey \notin DOMAIN diskDoc.content.images

\* The file has been renamed and the document is not saved yet.
C8_Witness == rn.pc = "save"

\* The file name a backup of .backupimage was taken of: what follows the
\* timestamp (three symbols) and its "_".
BackedUpName(b) == SubSeq(b.name, 5, Len(b.name))

\* C9 (as claimed): between two renames, .backupimage has at most one backup
\* of each original file name.
C9_OneBackupPerName ==
    rn.pc = "idle" =>
        \A b \in backupimage : \A c \in backupimage :
            BackedUpName(b) = BackedUpName(c) => b = c

\* The backups a step removes from .backupjson (a backup written again under
\* its name is not removed).
RemovedJsonBackups ==
    {d \in backupjson : \A r \in backupjson' : r.name # d.name}

C11_RenamePostcondition ==
    [][(rn.pc = "save" /\ rn'.ret = "true") =>
           /\ OldKey \notin DOMAIN workspace'.images
           /\ NewKey \in DOMAIN workspace'.images
           /\ workspace'.images[NewKey].extracted_data
                  = diskDoc.content.images[OldKey].extracted_data
           /\ workspace'.images[NewKey].edit_history
                  = diskDoc.content.images[OldKey].edit_history
           /\ workspace'.images[NewKey].file_info.path = rn.new_path
           /\ diskDoc'.content = workspace'
           /\ PathName(rn.new_path) \in DOMAIN files'
           /\ PathName(rn.old_path) \notin DOMAIN files'
           /\ \E b \in backupimage' :
                  /\ BackedUpName(b) = PathName(rn.old_path)
                  /\ b.mtime = files'[PathName(rn.new_path)]]_vars

\* C12: a rename of a record whose Store Name or Transaction Date is null
\* returns False and leaves the document in memory and on disk, the image
\* files and both backup directories as they were.
C12_NullFieldsNoOp ==
    [][\A k \in DOMAIN workspace.images :
           (/\ RenameStart(k)
            /\ \/ DictGet(workspace.images[k].extracted_data, FStore, None) = None
               \/ DictGet(workspace.images[k].extracted_data, FDate, None) = None)
           => /\ rn'.pc = "idle"
              /\ rn'.ret = "false"
              /\ UNCHANGED <<storeVars, files>>]_vars

\* A rename of a record that was never filled in has returned False.
C12_Witness ==
    /\ rn.pc = "idle"
    /\ rn.ret = "false"
    /\ \E k \in DOMAIN workspace.images :
           workspace.images[k].extracted_data[FStore] = None

\* C13: a rename of a record with both fields that returns False (the backup
\* of the image failed) changes neither the document in memory or on disk nor
\* the image files; and whenever an image file is renamed on disk,
\* .backupimage has the copy of it made under its old name in this rename.
C13_NoRenameWithoutBackup ==
    [][/\ \A k \in DOMAIN workspace.images :
              (/\ RenameStart(k)
               /\ CanRename(workspace.images[k].extracted_data)
               /\ rn'.ret = "false")
              => UNCHANGED <<workspace, diskDoc, files>>
       /\ files' # files =>
              \E b \in backupimage :
                  /\ b.name = BackupImageName(now, PathName(rn.old_path))
                  /\ b.mtime = files[PathName(rn.old_path)]]_vars

\* A rename of an edited record has returned False: its backup failed; the
\* file has the name it was opened under and no backup was ever made.
C13_Witness ==
    /\ rn.pc = "idle"
    /\ rn.ret = "false"
    /\ backupimage = {}
    /\ \E k \in DOMAIN workspace.images :
           /\ CanRename(workspace.images[k].extracted_data)
           /\ k \in DOMAIN files

\* C14 (as claimed): the extracted_data of every record, in memory and in
\* workspace.json, has only keys of the canonical vocabulary (the eight names
\* of output_format).
C14_CanonicalKeys ==
    /\ \A k \in DOMAIN workspace.images :
           DOMAIN workspace.images[k].extracted_data \subseteq Range(output_format)
    /\ \A k \in DOMAIN diskDoc.content.images :
           DOMAIN diskDoc.content.images[k].extracted_data \subseteq Range(output_format)

\* C15 (as claimed): every export returns True and writes the header and one
\* row per record, each row holding the record's values of the output_format
\* fields in that order (empty for a missing or null value), whatever other
\* keys the record's extracted_data has.
C15_ExportAllRows ==
    [][csv_out' # csv_out =>
           /\ csv_out'.ret = "true"
           /\ Len(csv_out'.rows) = 1 + Cardinality(DOMAIN workspace.images)
           /\ csv_out'.rows[1] = output_format
           /\ \A k \in DOMAIN workspace.images :
                  \E i \in 2..Len(csv_out'.rows) :
                      csv_out'.rows[i] =
                          [j \in DOMAIN output_format |->
                              CsvCell(DictGet(workspace.images[k].extracted_data,
                                              output_format[j], None))]]_vars

\* The relative paths of the image files in the folder.
ImageFileKeys == {RelativeTo(Join(Folder, n), Folder).rel : n \in DOMAIN files}

\* C16 (as claimed): whenever open_folder is called on the folder, the
\* document it leaves has exactly one record key per image file present.
C16_KeysAreFiles ==
    rn.pc = "idle" =>
        \A r \in OpenFolderResults(TheStore, Folder, DOMAIN files, now, generations) :
            DOMAIN r.workspace.images = ImageFileKeys

\* C17 (as claimed): opening the folder never fails because of the state of
\* workspace.json: whenever the file on disk is not a usable document (it is
\* not JSON, or it is JSON without the images mapping), every outcome of an
\* open ends without an exception, with a fresh document whose records are
\* new records of exactly the image files found.
UnusableDoc(doc) == doc.exists /\ (~doc.parseable \/ ~doc.content.has_images)

C17_OpenNeverFails ==
    (rn.pc = "idle" /\ UnusableDoc(diskDoc)) =>
        \A r \in OpenFolderResults(TheStore, Folder, DOMAIN files, now, generations) :
            /\ ~r.raised
            /\ r.workspace.has_images
            /\ DOMAIN r.workspace.images = ImageFileKeys
            /\ \A k \in DOMAIN r.workspace.images :
                   r.workspace.images[k] = NewImageInfo(Join(Folder, k))

KeyAfter(k) == IF rn.pc = "idle" /\ rn'.pc = "rename" /\ k = RelativeTo(rn'.old_path, current_folder).rel
               THEN RelativeTo(rn'.new_path, current_folder).rel
               ELSE k

RecordData(image_info) ==
    [extracted_data |-> image_info.extracted_data,
     edit_history |-> image_info.edit_history,
     processing_status |-> image_info.processing_status]

\* C20: in every state the folder can be in, opening it and then opening it
\* again (at once or a second later, nothing else happening in between)
\* gives after the second open the records of the first, no more and no
\* fewer, each with the extracted_data, edit_history and processing_status
\* the first open gave it.
C20_OpenIdempotent ==
    rn.pc = "idle" =>
        \A r1 \in OpenFolderResults(TheStore, Folder, DOMAIN files, now, generations) :
            \A t2 \in {now, now + 1} :
                \A r2 \in OpenFolderResults(r1, Folder, DOMAIN files, t2, generations) :
                    /\ DOMAIN r2.workspace.images = DOMAIN r1.workspace.images
                    /\ \A k \in DOMAIN r1.workspace.images :
                           RecordData(r2.workspace.images[k]) =
                               RecordData(r1.workspace.images[k])

\* The folder was opened, a record has a full history and its image file is
\* gone, and the folder has an image file without a record.
C20_Witness ==
    /\ rn.pc = "idle"
    /\ workspace.loaded
    /\ \E k \in DOMAIN workspace.images :
           /\ Len(workspace.images[k].edit_history) = MaxHistory
           /\ k \notin ImageFileKeys
    /\ ImageFileKeys \ DOMAIN workspace.images # {}

\* C21 (as claimed): every step in which an extraction succeeds leaves the
\* record of the item with all eight names of output_format as keys of its
\* extracted_data.
C21_AllCanonicalFields ==
    [][\A w \in Threads, response \in Responses :
           ItemSucceeds(w, response) =>
               LET str_path == ExtractedDataKey(current_folder, snapshot[w][position[w]])
               IN  str_path \in DOMAIN workspace'.images =>
                       Range(output_format) \subseteq
                           DOMAIN workspace'.images[str_path].extracted_data]_vars

\* Every record is under the relative key of its path, and its path is the
\* path of a file of the folder.
RecordsTrackFiles(ws, fileNames) ==
    \A k \in DOMAIN ws.images :
        LET path == ws.images[k].file_info.path
        IN  /\ PathName(path) \in fileNames
            /\ RelativeTo(path, Folder).ok
            /\ RelativeTo(path, Folder).rel = k

\* C22 (as claimed): every step in which rename_image returns False leaves
\* the in-memory document as it was when rename_image was called: the record
\* is under its old key and its path is the path of the file on disk.
C22_FalseLeavesDocument ==
    [][(/\ rn'.pc = "idle"
        /\ rn'.ret = "false"
        /\ (rn.pc = "rename" \/ \E k \in DOMAIN workspace.images : RenameStart(k))) =>
           /\ rn.pc = "idle" => workspace' = workspace
           /\ rn.pc = "rename" => OldKey \in DOMAIN workspace'.images
           /\ RecordsTrackFiles(workspace', DOMAIN files')]_vars

\* C23 (as claimed): no step of rename_image changes the number of records
\* of the document.
C23_RenameKeepsRecords ==
    [][(rn.pc # "idle" \/ \E k \in DOMAIN workspace.images : RenameStart(k)) =>
           Cardinality(DOMAIN workspace'.images) =
               Cardinality(DOMAIN workspace.images)]_vars

\* C24 (as claimed): when clear_queue was called while the extraction of an
\* item was under way and the extraction succeeds, the step stores the
\* result, leaves the record "completed" and counts the item in the progress.
C24_SuccessAfterCancel ==
    [][\A w \in Threads, response \in Responses :
           (cancelled /\ ItemSucceeds(w, response)) =>
               LET str_path == ExtractedDataKey(current_folder, snapshot[w][position[w]])
               IN  /\ str_path \in DOMAIN workspace.images =>
                       /\ workspace'.images[str_path].extracted_data =
                              ConvertResult(response)
                       /\ workspace'.images[str_path].processing_status.status =
                              "completed"
                   /\ current_progress' = current_progress + 1]_vars

\* C25 (as claimed): once clear_queue has been called during a batch, the
\* next step of the batch at its loop head leaves the loop, whatever was
\* enqueued in between.
C25_CancelNotUndone ==
    [][\A w \in Threads :
           (pc[w] = "loop" /\ obs[w].cancel_at # NoTime /\ pc'[w] # "loop") =>
               pc'[w] = "finally"]_vars

\* C26 (as claimed): update_extracted_data called with the path of a file
\* outside the open folder changes no record of the document, also when the
\* folder has a record of the same file name.
C26_OutsidePathChangesNothing ==
    [][\A image_path \in OutsidePaths, response \in Responses :
           ApiUpdateExtractedData(image_path, ConvertResult(response)) =>
               workspace'.images = workspace.images]_vars

\* C27 (as claimed): a record whose status is "completed" has no error type
\* and no error details.
C27_CompletedHasNoError ==
    \A k \in DOMAIN workspace.images :
        workspace.images[k].processing_status.status = "completed" =>
            /\ workspace.images[k].processing_status.error_type = NoError.class
            /\ workspace.images[k].processing_status.error_details = NoError.msg

\* The file of record k already has the name generated from its fields.
AlreadyRenamed(k) ==
    LET image_info == workspace.images[k]
    IN  /\ CanRename(image_info.extracted_data)
        /\ PathName(image_info.file_info.path) =
               GenerateFilename(image_info.extracted_data,
                                PathSuffix(PathName(image_info.file_info.path)))

\* C28 (as claimed): rename_image called for a record whose file already has
\* the generated name keeps the file name and the key of the record.
C28_RenameIdempotent ==
    [][\A k \in DOMAIN workspace.images :
           (AlreadyRenamed(k) /\ RenameStart(k)) =>
               /\ k \in DOMAIN workspace'.images
               /\ rn'.pc = "rename" => rn'.new_path = rn'.old_path]_vars

\* C29 (as claimed): when open_folder finds a workspace.json that is not
\* JSON, .backupjson has a copy of that file after the open.
C29_UnparseableKept ==
    [][(diskDoc.exists /\ ~diskDoc.parseable /\ OnOpenFolder) =>
           \E b \in backupjson' : ~b.parseable /\ b.mtime = diskDoc.mtime]_vars

\* C30: a batch that is running returns to idle: the running flag goes down
\* again, and until then the worker is never past the end of its copy of the
\* queue, so that it starts each of the N items of the copy at most once;
\* and when the cancellation flag is set at the loop head, the worker leaves
\* the loop there.
C30_BatchTerminates ==
    /\ is_processing ~> ~is_processing
    /\ [][\A w \in Threads :
             (pc[w] = "loop" /\ cancelled /\ pc'[w] # "loop") => pc'[w] = "finally"]_vars
    /\ [](\A w \in Threads : Running(w) => position[w] <= Len(snapshot[w]) + 1)
    /\ [][\A w \in Threads : Running(w) /\ Running(w)' => position'[w] >= position[w]]_vars

\* A batch over MaxQueue items has tried every item, one of them without
\* success, and has returned to idle.
C30_Witness ==
    /\ pc[1] = "returned"
    /\ ~is_processing
    /\ Len(snapshot[1]) = MaxQueue
    /\ position[1] = MaxQueue + 1
    /\ obs[1].failed # {}

====
